---- MODULE Spec2Model ----
(***************************************************************************)
(* One run of newsletter_agent.py executed as a script: the module-level   *)
(* configuration, the __main__ block, and the four pipeline stages         *)
(* search_ai_news, curate_newsletter, format_for_slack and post_to_slack.  *)
(* The AI completion service and the webhook are the environment: each     *)
(* call either raises or returns a value drawn from a bounded set.         *)
(*                                                                         *)
(* Python strings that the pipeline passes along (segment texts, the       *)
(* findings, the digest) are sequences of one-character strings, so that   *)
(* concatenation, truncation and escaping are all expressible.  A Python   *)
(* name that may be None or unbound is an option: <<>> or <<v>>.           *)
(***************************************************************************)
EXTENDS Integers, Sequences, FiniteSets, TLC

\* ---------------------------------------------------------------- bounds
MaxSegs == 3        \* longest content list of a search response
MaxCurateSegs == 2  \* longest content list of a curation response
MaxTextLen == 1     \* longest text of one textual segment

\* ------------------------------------------------------- program constants
HTTP_OK == 200
EXIT_FAILURE == 1
EXIT_SUCCESS == 0

\* ------------------------------------------------------------- options
None == <<>>
Some(v) == <<v>>
Val(o) == o[1]

\* ------------------------------------------------------ environment sets
Chars == {"a", "*"}

RECURSIVE StringsUpTo(_)
StringsUpTo(n) ==
    IF n = 0 THEN {<<>>}
    ELSE LET shorter == StringsUpTo(n - 1)
         IN  shorter \cup {Append(s, c) : s \in shorter, c \in Chars}

Texts == StringsUpTo(MaxTextLen)

\* A content block of a response: a TextBlock has a text attribute, a
\* tool-use record has none.
TextBlock(t) == [type |-> "text", text |-> t]
ToolUseBlock == [type |-> "tool_use"]
Blocks == {TextBlock(t) : t \in Texts} \cup {ToolUseBlock}

RECURSIVE ContentsUpTo(_)
ContentsUpTo(n) ==
    IF n = 0 THEN {<<>>}
    ELSE LET shorter == ContentsUpTo(n - 1)
         IN  shorter \cup {Append(s, b) : s \in shorter, b \in Blocks}

Contents == ContentsUpTo(MaxSegs)
CurateContents == ContentsUpTo(MaxCurateSegs)

\* os.environ.get: None when the variable is unset, else its string value.
EnvValues(v) == {None, Some(""), Some(v)}

Statuses == {200, 201, 400, 500}
Bodies == {"ok", "invalid_payload"}
Dates == {[year |-> 2025, month |-> 1, day |-> 6],
          [year |-> 2025, month |-> 12, day |-> 29]}

\* ---------------------------------------------------------------- state
VARIABLES
    ANTHROPIC_API_KEY,  \* module-level configuration (option of string)
    SLACK_WEBHOOK_URL,  \* module-level configuration (option of string)
    pc,                 \* position of the run
    mode,               \* "preview" (inline branch of __main__) or "agent"
    response,           \* content list of the AI response being consumed
    idx,                \* position of the for loop over response.content
    result_text,        \* accumulator of search_ai_news
    raw_news,           \* option: value returned by search_ai_news
    newsletter,         \* option: value returned by curate_newsletter
    slack_payload,      \* option: value returned by format_for_slack
    post_response,      \* option: response of requests.post
    success,            \* option: value returned by post_to_slack
    exception,          \* option: the exception that ended the run
    exit_status,        \* option: exit status of the process
    console,            \* lines printed so far
    calls,              \* stage functions invoked so far, in order
    aiRequests,         \* requests sent to client.messages.create
    api_errors,         \* number of AI completion calls that raised
    posts               \* requests sent with requests.post

vars == <<ANTHROPIC_API_KEY, SLACK_WEBHOOK_URL, pc, mode, response, idx,
          result_text, raw_news, newsletter, slack_payload, post_response,
          success, exception, exit_status, console, calls, aiRequests,
          api_errors, posts>>

config == <<ANTHROPIC_API_KEY, SLACK_WEBHOOK_URL>>
searchLocals == <<idx, result_text>>
delivery == <<slack_payload, post_response, success, posts>>

\* ------------------------------------------------------------- helpers
\* Python truthiness of an optional string: `not x`.
Falsy(o) == o = None \/ Val(o) = ""

hasattr(block, name) == name \in DOMAIN block

Line(m, a) == [msg |-> m, arg |-> a]
Rule == Line("==================================================", 0)
Printed(m) == \E i \in DOMAIN console : console[i].msg = m

\* Anthropic(api_key=ANTHROPIC_API_KEY): stores the key, sends nothing.
client == [api_key |-> ANTHROPIC_API_KEY]

MonthName == <<"January", "February", "March", "April", "May", "June",
               "July", "August", "September", "October", "November",
               "December">>

\* today.strftime('%B %d, %Y')
strftime_BdY(d) ==
    <<MonthName[d.month], " ", d.day \div 10, d.day % 10, ", ", d.year>>

SearchRequest ==
    [model |-> "claude-sonnet-4-20250514", max_tokens |-> 4096,
     tools |-> <<[type |-> "web_search_20250305", name |-> "web_search"]>>,
     prompt |-> "search"]

CurateRequest(news) ==
    [model |-> "claude-sonnet-4-20250514", max_tokens |-> 2048,
     tools |-> <<>>, prompt |-> <<"curate", news>>]

\* An uncaught exception: traceback, the interpreter exits with status 1.
Uncaught(name) ==
    /\ exception' = Some(name)
    /\ exit_status' = Some(EXIT_FAILURE)
    /\ pc' = "exited"

\* ----------------------------------------------------------------- Init
Init ==
    /\ ANTHROPIC_API_KEY \in EnvValues("sk-key")
    /\ SLACK_WEBHOOK_URL \in EnvValues("https://hooks.slack.example/T")
    /\ pc = "main"
    /\ mode = "none"
    /\ response = <<>>
    /\ idx = 1
    /\ result_text = <<>>
    /\ raw_news = None
    /\ newsletter = None
    /\ slack_payload = None
    /\ post_response = None
    /\ success = None
    /\ exception = None
    /\ exit_status = None
    /\ console = <<>>
    /\ calls = <<>>
    /\ aiRequests = <<>>
    /\ api_errors = 0
    /\ posts = <<>>

\* -------------------------------------------------------------- __main__
Main_NoKeyCheck ==
    /\ pc = "main"
    /\ IF Falsy(SLACK_WEBHOOK_URL)
       THEN /\ mode' = "preview"
            /\ console' = console \o
                 <<Line("WARNING: SLACK_WEBHOOK_URL not set", 0),
                   Line("[1/2] Searching for AI news...", 0)>>
       ELSE /\ mode' = "agent"
            /\ console' = console \o
                 <<Rule, Line("AI Newsletter Agent", 0), Rule,
                   Line("[1/3] Searching for AI news", 0)>>
    /\ pc' = "search_call"
    /\ UNCHANGED <<config, response, searchLocals, raw_news, newsletter,
                   delivery, exception, exit_status, calls, aiRequests,
                   api_errors>>

Main_ExitZero ==
    /\ pc = "main"
    /\ IF Falsy(ANTHROPIC_API_KEY)
       THEN /\ console' = console \o
                 <<Line("ERROR: ANTHROPIC_API_KEY environment variable not set", 0),
                   Line("Set it with: export ANTHROPIC_API_KEY", 0)>>
            /\ exit_status' = Some(EXIT_SUCCESS)
            /\ pc' = "exited"
            /\ UNCHANGED mode
       ELSE /\ Main_NoKeyCheck
    /\ UNCHANGED <<config, response, searchLocals, raw_news, newsletter,
                   delivery, exception, calls, aiRequests, api_errors>>

\* The __main__ block up to the first stage call: the credential check, the
\* choice between the preview branch and run_newsletter_agent, and the
\* lines printed on the way.
Main ==
    /\ pc = "main"
    /\ IF Falsy(ANTHROPIC_API_KEY)
       THEN /\ console' = console \o
                 <<Line("ERROR: ANTHROPIC_API_KEY environment variable not set", 0),
                   Line("Set it with: export ANTHROPIC_API_KEY", 0)>>
            /\ exit_status' = Some(EXIT_FAILURE)
            /\ pc' = "exited"
            /\ mode' = mode
       ELSE /\ IF Falsy(SLACK_WEBHOOK_URL)
               THEN /\ mode' = "preview"
                    /\ console' = console \o
                         <<Line("WARNING: SLACK_WEBHOOK_URL not set", 0),
                           Line("[1/2] Searching for AI news...", 0)>>
               ELSE /\ mode' = "agent"
                    /\ console' = console \o
                         <<Rule, Line("AI Newsletter Agent", 0), Rule,
                           Line("[1/3] Searching for AI news", 0)>>
            /\ pc' = "search_call"
            /\ exit_status' = exit_status
    /\ UNCHANGED <<config, response, searchLocals, raw_news, newsletter,
                   delivery, exception, calls, aiRequests, api_errors>>

\* -------------------------------------------------------- search_ai_news
SearchAiNewsCall_Retry ==
    /\ pc = "search_call"
    /\ calls' = (IF aiRequests = <<>> THEN Append(calls, "search_ai_news")
                 ELSE calls)
    /\ aiRequests' = Append(aiRequests, SearchRequest)
    /\ \/ /\ api_errors' = api_errors + 1
          /\ IF api_errors = 0
             THEN UNCHANGED <<pc, exception, exit_status>>
             ELSE Uncaught("APIError")
          /\ UNCHANGED <<response, searchLocals>>
       \/ /\ \E c \in Contents : response' = c
          /\ result_text' = <<>>
          /\ idx' = 1
          /\ pc' = "search_extract"
          /\ UNCHANGED <<api_errors, exception, exit_status>>
    /\ UNCHANGED <<config, mode, raw_news, newsletter, delivery, console>>

\* search_ai_news is entered and issues client.messages.create with the
\* web-search tool; the call raises, or returns a content list.
SearchAiNewsCall ==
    /\ pc = "search_call"
    /\ calls' = Append(calls, "search_ai_news")
    /\ aiRequests' = Append(aiRequests, SearchRequest)
    /\ \/ /\ api_errors' = api_errors + 1
          /\ Uncaught("APIError")
          /\ UNCHANGED <<response, searchLocals>>
       \/ /\ \E c \in Contents : response' = c
          /\ result_text' = <<>>
          /\ idx' = 1
          /\ pc' = "search_extract"
          /\ UNCHANGED <<api_errors, exception, exit_status>>
    /\ UNCHANGED <<config, mode, raw_news, newsletter, delivery, console>>

ExtractBlock_Prepend(text, block) ==
    IF hasattr(block, "text") THEN block.text \o text ELSE text

\* Body of the for loop: `if hasattr(block, 'text'): result_text += block.text`
ExtractBlock(text, block) ==
    IF hasattr(block, "text") THEN text \o block.text ELSE text

\* One iteration of `for block in response.content`.
SearchAiNewsExtract ==
    /\ pc = "search_extract"
    /\ idx <= Len(response)
    /\ result_text' = ExtractBlock(result_text, response[idx])
    /\ idx' = idx + 1
    /\ UNCHANGED <<config, pc, mode, response, raw_news, newsletter,
                   delivery, exception, exit_status, console, calls,
                   aiRequests, api_errors>>

\* The loop is exhausted: `return result_text`, and the caller prints the
\* lines that precede the curation call.
SearchAiNewsReturn ==
    /\ pc = "search_extract"
    /\ idx > Len(response)
    /\ raw_news' = Some(result_text)
    /\ console' = console \o
         (IF mode = "agent"
          THEN <<Line("Found characters of news content", Len(result_text)),
                 Line("[2/3] Curating newsletter...", 0)>>
          ELSE <<Line("[2/2] Curating newsletter...", 0)>>)
    /\ pc' = "curate_call"
    /\ UNCHANGED <<config, mode, response, searchLocals, newsletter,
                   delivery, exception, exit_status, calls, aiRequests,
                   api_errors>>

\* ----------------------------------------------------- curate_newsletter
\* curate_newsletter is entered and issues client.messages.create with the
\* findings interpolated in the prompt; the call raises, or returns.
CurateNewsletterCall ==
    /\ pc = "curate_call"
    /\ calls' = Append(calls, "curate_newsletter")
    /\ aiRequests' = Append(aiRequests, CurateRequest(Val(raw_news)))
    /\ \/ /\ api_errors' = api_errors + 1
          /\ Uncaught("APIError")
          /\ UNCHANGED response
       \/ /\ \E c \in CurateContents : response' = c
          /\ pc' = "curate_return"
          /\ UNCHANGED <<api_errors, exception, exit_status>>
    /\ UNCHANGED <<config, mode, searchLocals, raw_news, newsletter,
                   delivery, console>>

\* `return response.content[0].text`: IndexError on an empty content list,
\* AttributeError on a first block without a text attribute.  On return the
\* preview branch prints the newsletter and the script ends; the agent
\* branch prints its progress lines and goes on to format_for_slack.
CurateNewsletterReturn ==
    /\ pc = "curate_return"
    /\ IF Len(response) = 0
       THEN /\ Uncaught("IndexError")
            /\ UNCHANGED <<newsletter, console>>
       ELSE IF ~hasattr(response[1], "text")
       THEN /\ Uncaught("AttributeError")
            /\ UNCHANGED <<newsletter, console>>
       ELSE /\ newsletter' = Some(response[1].text)
            /\ exception' = exception
            /\ IF mode = "preview"
               THEN /\ console' = console \o
                         <<Rule, Line("NEWSLETTER PREVIEW", 0), Rule,
                           Line("newsletter", response[1].text)>>
                    /\ exit_status' = Some(EXIT_SUCCESS)
                    /\ pc' = "exited"
               ELSE /\ console' = console \o
                         <<Line("Newsletter ready (characters)",
                                Len(response[1].text)),
                           Line("[3/3] Posting to Slack...", 0)>>
                    /\ exit_status' = exit_status
                    /\ pc' = "format"
    /\ UNCHANGED <<config, mode, response, searchLocals, raw_news,
                   delivery, calls, aiRequests, api_errors>>

\* ------------------------------------------------------ format_for_slack
Escape(text) ==
    [i \in DOMAIN text |-> IF text[i] = "*" THEN "\\*" ELSE text[i]]

format_for_slack_Escaped(newsletter_content, today) ==
    [blocks |-> <<
        [type |-> "header",
         text |-> [type |-> "plain_text",
                   text |-> <<"AI Weekly", strftime_BdY(today)>>,
                   emoji |-> TRUE]],
        [type |-> "divider"],
        [type |-> "section",
         text |-> [type |-> "mrkdwn", text |-> Escape(newsletter_content)]],
        [type |-> "divider"],
        [type |-> "context",
         elements |-> <<[type |-> "mrkdwn",
                         text |-> "Curated by your AI Newsletter Agent"]>>]
    >>]

\* The Block Kit payload: header, divider, section, divider, context.
format_for_slack(newsletter_content, today) ==
    [blocks |-> <<
        [type |-> "header",
         text |-> [type |-> "plain_text",
                   text |-> <<"AI Weekly", strftime_BdY(today)>>,
                   emoji |-> TRUE]],
        [type |-> "divider"],
        [type |-> "section",
         text |-> [type |-> "mrkdwn", text |-> newsletter_content]],
        [type |-> "divider"],
        [type |-> "context",
         elements |-> <<[type |-> "mrkdwn",
                         text |-> "Curated by your AI Newsletter Agent"]>>]
    >>]

FormatForSlack_RawNews ==
    /\ pc = "format"
    /\ calls' = Append(calls, "format_for_slack")
    /\ \E today \in Dates :
         slack_payload' = Some(format_for_slack(Val(raw_news), today))
    /\ response' = <<>>
    /\ pc' = "post"
    /\ UNCHANGED <<config, mode, searchLocals, raw_news, newsletter,
                   post_response, success, posts, exception, exit_status,
                   console, aiRequests, api_errors>>

\* run_newsletter_agent: `slack_payload = format_for_slack(newsletter)`,
\* with datetime.now() read inside the call.  The response held by
\* curate_newsletter is out of scope from here on.
FormatForSlack ==
    /\ pc = "format"
    /\ calls' = Append(calls, "format_for_slack")
    /\ \E today \in Dates :
         slack_payload' = Some(format_for_slack(Val(newsletter), today))
    /\ response' = <<>>
    /\ pc' = "post"
    /\ UNCHANGED <<config, mode, searchLocals, raw_news, newsletter,
                   post_response, success, posts, exception, exit_status,
                   console, aiRequests, api_errors>>

\* --------------------------------------------------------- post_to_slack
IsSuccess_Any2xx(status_code) == status_code \div 100 = 2

\* `response.status_code == 200`
IsSuccess(status_code) == status_code = HTTP_OK

\* Lines printed once post_to_slack has a response, followed by the lines
\* run_newsletter_agent prints `if success`.
DeliveryLines(status_code, text) ==
    IF IsSuccess(status_code)
    THEN <<Line("Newsletter posted to Slack successfully", 0),
           Rule, Line("Newsletter delivered!", 0), Rule>>
    ELSE <<Line("Failed to post to Slack", <<status_code, text>>)>>

\* post_to_slack(slack_payload) and the rest of the run: the guard on the
\* webhook URL, one requests.post that raises or answers, the boolean
\* result, the lines printed, `return newsletter`, end of the script.
PostToSlack ==
    /\ pc = "post"
    /\ calls' = Append(calls, "post_to_slack")
    /\ IF Falsy(SLACK_WEBHOOK_URL)
       THEN /\ console' = console \o
                 <<Line("ERROR: SLACK_WEBHOOK_URL environment variable not set", 0)>>
            /\ success' = Some(FALSE)
            /\ exit_status' = Some(EXIT_SUCCESS)
            /\ pc' = "exited"
            /\ UNCHANGED <<posts, post_response, exception>>
       ELSE /\ posts' = Append(posts,
                 [url |-> Val(SLACK_WEBHOOK_URL),
                  json |-> Val(slack_payload),
                  headers |-> [ContentType |-> "application/json"]])
            /\ \/ /\ Uncaught("RequestException")
                  /\ UNCHANGED <<post_response, success, console>>
               \/ \E status_code \in Statuses, text \in Bodies :
                    /\ post_response' =
                         Some([status_code |-> status_code, text |-> text])
                    /\ success' = Some(IsSuccess(status_code))
                    /\ console' = console \o DeliveryLines(status_code, text)
                    /\ exit_status' = Some(EXIT_SUCCESS)
                    /\ pc' = "exited"
                    /\ exception' = exception
    /\ UNCHANGED <<config, mode, response, searchLocals, raw_news,
                   newsletter, slack_payload, aiRequests, api_errors>>

\* ------------------------------------------------------------------ Next
Next ==
    \/ Main
    \/ SearchAiNewsCall
    \/ SearchAiNewsExtract
    \/ SearchAiNewsReturn
    \/ CurateNewsletterCall
    \/ CurateNewsletterReturn
    \/ FormatForSlack
    \/ PostToSlack

Spec == Init /\ [][Next]_vars

TypeOK ==
    /\ pc \in {"main", "search_call", "search_extract", "curate_call",
               "curate_return", "format", "post", "exited"}
    /\ mode \in {"none", "preview", "agent"}
    /\ response \in Contents \cup CurateContents
    /\ idx \in 1..(MaxSegs + 1)
    /\ api_errors \in 0..1
    /\ Len(posts) <= 1

\* ============================================================ properties
Absent(o) == Falsy(o)
Stages == <<"search_ai_news", "curate_newsletter", "format_for_slack",
            "post_to_slack">>
IsPrefix(s, t) == Len(s) <= Len(t) /\ SubSeq(t, 1, Len(s)) = s
Invoked(f) == \E i \in DOMAIN calls : calls[i] = f
TimesInvoked(f) == Cardinality({i \in DOMAIN calls : calls[i] = f})
BlocksOfType(blocks, t) == {i \in DOMAIN blocks : blocks[i].type = t}
IsText(b) == b.type = "text"

RECURSIVE Join(_)
Join(texts) ==
    IF texts = <<>> THEN <<>> ELSE Head(texts) \o Join(Tail(texts))

\* The texts of the textual segments of a content list, in order.
TextsOf(content) ==
    LET kept == SelectSeq(content, IsText)
    IN  [i \in DOMAIN kept |-> kept[i].text]

\* C1: with the credential absent the run halts with exit status 1 and the
\* diagnostic, and at no point has an AI completion call or a webhook POST
\* been made or a stage been invoked, whatever the webhook configuration.
C1_HaltsBeforeAnyCall ==
    Absent(ANTHROPIC_API_KEY) =>
        /\ aiRequests = <<>>
        /\ posts = <<>>
        /\ calls = <<>>
        /\ pc \in {"main", "exited"}
        /\ pc = "exited" =>
             /\ exit_status = Some(EXIT_FAILURE)
             /\ Printed("ERROR: ANTHROPIC_API_KEY environment variable not set")

C1_Witness ==
    /\ ANTHROPIC_API_KEY = None
    /\ ~Falsy(SLACK_WEBHOOK_URL)
    /\ pc = "exited"

\* C2: with the credential present and the webhook URL absent, a run in
\* which no AI call raises invokes search_ai_news then curate_newsletter
\* and prints the digest, and never invokes format_for_slack or
\* post_to_slack nor performs a POST.
C2_Original ==
    (~Absent(ANTHROPIC_API_KEY) /\ Absent(SLACK_WEBHOOK_URL)) =>
        /\ posts = <<>>
        /\ ~Invoked("format_for_slack")
        /\ ~Invoked("post_to_slack")
        /\ (pc = "exited" /\ api_errors = 0) =>
             /\ calls = <<"search_ai_news", "curate_newsletter">>
             /\ newsletter # None
             /\ Printed("newsletter")

\* C3: with the credential and the webhook URL present, a run in which no
\* external call raises ends having invoked the four stages in order, each
\* exactly once, with two AI calls and one POST.
C3_Original ==
    (/\ ~Absent(ANTHROPIC_API_KEY)
     /\ ~Absent(SLACK_WEBHOOK_URL)
     /\ pc = "exited"
     /\ api_errors = 0
     /\ exception # Some("RequestException")) =>
        /\ calls = Stages
        /\ Len(aiRequests) = 2
        /\ Len(posts) = 1

\* C4: post_to_slack performs at most one POST in a run; once it has
\* returned with the webhook URL configured it has performed exactly one,
\* its result is true exactly when the status is 200, and for any other
\* status the failure line printed carries that status code.
C4_PublisherResult ==
    /\ Len(posts) <= 1
    /\ TimesInvoked("post_to_slack") <= 1
    /\ (success # None /\ ~Absent(SLACK_WEBHOOK_URL)) =>
         /\ Len(posts) = 1
         /\ post_response # None
         /\ Val(success) <=> (Val(post_response).status_code = 200)
         /\ Val(post_response).status_code # 200 =>
              \E i \in DOMAIN console :
                /\ console[i].msg = "Failed to post to Slack"
                /\ console[i].arg[1] = Val(post_response).status_code

C4_Witness ==
    /\ success = Some(FALSE)
    /\ post_response # None
    /\ Val(post_response).status_code = 201

\* C5 as stated: the exit status is non-zero exactly when the credential
\* is absent.
C5_Original ==
    pc = "exited" =>
        ((Val(exit_status) # 0) <=> Absent(ANTHROPIC_API_KEY))

\* C5 as amended: the exit status is non-zero when the credential is
\* absent or an exception propagated uncaught, and zero otherwise; a run
\* whose webhook answered, with whatever status, has completed with exit
\* status zero.
C5_ExitStatus ==
    /\ pc = "exited" <=> exit_status # None
    /\ pc = "exited" =>
         exit_status = Some(IF Absent(ANTHROPIC_API_KEY) \/ exception # None
                            THEN 1 ELSE 0)
    /\ Absent(ANTHROPIC_API_KEY) => exception = None
    /\ post_response # None =>
         /\ pc = "exited"
         /\ exception = None
         /\ exit_status = Some(0)

C5_Witness ==
    /\ pc = "exited"
    /\ post_response # None
    /\ Val(post_response).status_code = 500
    /\ success = Some(FALSE)
    /\ exit_status = Some(0)

\* C6: once an AI completion call has raised, the run is over with an
\* uncaught exception: the call was made once and not repeated, no stage
\* after the failing one was invoked, nothing was posted, no payload was
\* built and no digest was printed.
C6_AIErrorEndsRun ==
    api_errors > 0 =>
        /\ api_errors = 1
        /\ pc = "exited"
        /\ exception = Some("APIError")
        /\ exit_status = Some(EXIT_FAILURE)
        /\ calls \in {<<"search_ai_news">>,
                      <<"search_ai_news", "curate_newsletter">>}
        /\ Len(aiRequests) = Len(calls)
        /\ posts = <<>>
        /\ newsletter = None
        /\ slack_payload = None
        /\ success = None
        /\ ~Printed("newsletter")
        /\ ~Printed("Newsletter delivered!")

C6_Witness ==
    /\ api_errors = 1
    /\ calls = <<"search_ai_news", "curate_newsletter">>
    /\ raw_news # None
    /\ pc = "exited"

\* C7: every payload built by format_for_slack is header, divider,
\* section, divider, context: one header, one context, two dividers
\* around the single section, whose text is the digest unchanged.
C7_PayloadShape ==
    slack_payload # None =>
        LET b == Val(slack_payload).blocks
        IN  /\ [i \in DOMAIN b |-> b[i].type] =
                 <<"header", "divider", "section", "divider", "context">>
            /\ Cardinality(BlocksOfType(b, "header")) = 1
            /\ Cardinality(BlocksOfType(b, "context")) = 1
            /\ Cardinality(BlocksOfType(b, "section")) = 1
            /\ Cardinality(BlocksOfType(b, "divider")) = 2
            /\ \A i \in BlocksOfType(b, "section") :
                 /\ b[i].text.text = Val(newsletter)
                 /\ BlocksOfType(b, "divider") = {i - 1, i + 1}

C7_Witness ==
    /\ slack_payload # None
    /\ newsletter = Some(<<"*">>)

\* C8: when the webhook answered 200, the run reports success, exactly one
\* POST was made, and the section block of its JSON body carries the text
\* returned by curate_newsletter, unchanged.
C8_DigestDelivered ==
    (post_response # None /\ Val(post_response).status_code = 200) =>
        /\ success = Some(TRUE)
        /\ Printed("Newsletter delivered!")
        /\ newsletter # None
        /\ Len(posts) = 1
        /\ LET b == posts[1].json.blocks
           IN  /\ BlocksOfType(b, "section") # {}
               /\ \A i \in BlocksOfType(b, "section") :
                    b[i].text.text = Val(newsletter)

C8_Witness ==
    /\ post_response # None
    /\ Val(post_response).status_code = 200
    /\ newsletter = Some(<<"*">>)
    /\ raw_news = Some(<<"a">>)

\* C9: throughout the extraction loop the accumulator is the concatenation,
\* in order, of the texts of the textual segments already visited, and the
\* value search_ai_news returns is the concatenation over the whole
\* response, the empty string when the response has no textual segment.
C9_ExtractConcatenation ==
    /\ pc = "search_extract" =>
         result_text = Join(TextsOf(SubSeq(response, 1, idx - 1)))
    /\ pc = "curate_call" =>
         /\ raw_news = Some(Join(TextsOf(response)))
         /\ (\A i \in DOMAIN response : ~IsText(response[i])) =>
              (raw_news = Some(<<>>) /\ exception = None)

C9_Witness ==
    /\ pc = "curate_call"
    /\ response = <<TextBlock(<<"a">>), ToolUseBlock, TextBlock(<<"*">>)>>
    /\ raw_news = Some(<<"a", "*">>)

\* C10: once curate_newsletter is done with a response that has a textual
\* segment, it has returned the text of the first textual segment.
C10_Original ==
    (/\ pc \in {"format", "exited"}
     /\ calls = <<"search_ai_news", "curate_newsletter">>
     /\ api_errors = 0
     /\ TextsOf(response) # <<>>) =>
        /\ exception = None
        /\ newsletter = Some(TextsOf(response)[1])

====
